---- MODULE Spec2Model ----
(***************************************************************************)
(* Model of native/jni/whisper_jni.cpp: the JNI binding between the        *)
(* managed WhisperNative class and the whisper inference library.          *)
(*                                                                         *)
(* Each exported function is modelled statement by statement; a thread's   *)
(* position is named after the source line it is about to execute          *)
(* ("ic21" = initContext, line 21).  The whisper library and the JNI       *)
(* runtime are the environment: their results are chosen                   *)
(* nondeterministically, and what they were handed is recorded in the      *)
(* calling thread's frame.                                                 *)
(***************************************************************************)
EXTENDS Integers, Sequences, FiniteSets

\* ------------------------------------------------------------------ bounds

\* Largest number of segments one decode reports.
MaxSegs == 2
\* Width of a native pointer, scaled down (the real width is 32 or 64).
PtrBits == 4

\* ------------------------------------------------------- program constants

\* static int g_n_threads = 4;
InitialThreads == 4
\* g_n_threads = n_threads > 0 ? n_threads : 4;
FallbackThreads == 4

\* ------------------------------------------------------------ input values

Threads == {1, 2}
\* The thread that issues the calls of a sequential history.
MainThread == CHOOSE t \in Threads : \A u \in Threads : t <= u

\* jint n_threads hints: negative, the boundary 0, and positive values on
\* both sides of the default.
ThreadHints == {-1, 0, 1, 8}

ModelPaths == {"model.bin", "missing.bin"}
\* The paths at which the library finds a loadable model.
ValidModels == {"model.bin"}

AudioArrays == {<<1, 2>>}
SampleRates == {16000}
Languages == {"en", "auto"}

\* C strings are sequences of bytes.  BadByte stands for a byte sequence
\* that is not valid Modified UTF-8 (a truncated multi-byte character).
BadByte == "xFF"
Space == " "
ReplacementChar == "?"
SegA == <<"a">>
SegB == <<"b">>
SegBad == <<"a", BadByte>>

\* whisper_full status codes: 0 is success.
Statuses == {0, -1, 7}

\* ----------------------------------------------------------------- helpers

Pow2(n) == 2 ^ n

\* The i-th address of the allocator: low and high halves of the address
\* space alternate, so that some addresses have the top bit set.
HeapAddr(i) == IF i % 2 = 1 THEN i ELSE Pow2(PtrBits) - i
\* The addresses at which the library places contexts.
HeapAddrs == {HeapAddr(1), HeapAddr(2)}
NullPtr == 0

\* reinterpret_cast<jlong>(ctx): a pointer widened to a signed 64-bit
\* integer; an address with the top bit set becomes negative.
PtrToJlong(p) == IF p >= Pow2(PtrBits - 1) THEN p - Pow2(PtrBits) ELSE p
\* reinterpret_cast<whisper_context*>(context_ptr): truncation to the
\* pointer width.
JlongToPtr(j) == j % Pow2(PtrBits)

\* The jlong values a caller may pass: null and every address, whether or
\* not a context lives there.
JHandles == {PtrToJlong(p) : p \in {NullPtr} \cup HeapAddrs}

\* Segment lists the decode can leave in a context: k segments, k in
\* 0..MaxSegs, alternating two texts; the longest list also in the other
\* order; and a list whose text is not valid Modified UTF-8.
Alt(k, first, second) == [i \in 1..k |-> IF i % 2 = 1 THEN first ELSE second]
DecodeOutputs ==
    {Alt(k, SegA, SegB) : k \in 0..MaxSegs}
        \cup {Alt(MaxSegs, SegB, SegA), <<SegBad>>}

VARIABLES
    g_n_threads,  \* static int g_n_threads
    ctxs,         \* library heap: address -> [st, segs, translated]
    crashed,      \* the process has been killed
    borrowed,     \* JNI buffers handed out and not yet released
    pc,           \* thread -> position
    call,         \* thread -> the entry point it is in, with its arguments
    loc,          \* thread -> locals of the call
    ev,           \* thread -> JNI and library calls made by the call, in order
    hasInit,      \* an initContext call has been made
    lastHint,     \* n_threads of the most recent initContext call
    seen          \* thread -> values g_n_threads held during its call

vars == <<g_n_threads, ctxs, crashed, borrowed, pc, call, loc, ev,
          hasInit, lastHint, seen>>

\* A context: whether it is live, the segments of its last decode, and
\* whether that decode translated.
NoCtx(st) == [st |-> st, segs |-> <<>>, translated |-> FALSE]
NoCall == [op |-> "none"]
NoLoc == [op |-> "none"]

Init ==
    /\ g_n_threads = InitialThreads
    /\ ctxs = [a \in HeapAddrs |-> NoCtx("unalloc")]
    /\ crashed = FALSE
    /\ borrowed = {}
    /\ pc = [t \in Threads |-> "idle"]
    /\ call = [t \in Threads |-> NoCall]
    /\ loc = [t \in Threads |-> NoLoc]
    /\ ev = [t \in Threads |-> <<>>]
    /\ hasInit = FALSE
    /\ lastHint = 0
    /\ seen = [t \in Threads |-> {}]

Live(p) == p \in HeapAddrs /\ ctxs[p].st = "live"
CtxState(p) == IF p \in HeapAddrs THEN ctxs[p].st ELSE "null"
LiveSet == {a \in HeapAddrs : ctxs[a].st = "live"}
AllIdle == \A t \in Threads : pc[t] = "idle"
At(t, where) == ~crashed /\ pc[t] = where

Goto(t, where) == pc' = [pc EXCEPT ![t] = where]
Log(t, what) == ev' = [ev EXCEPT ![t] = Append(@, what)]

\* env->Get...: the buffer is outstanding until released.
AcquireBuf(b, buf) == b \cup {buf}
\* Variant: the release is forgotten and the buffer stays outstanding.
ReleaseBuf_Leak(b, buf) == b

\* env->Release...
ReleaseBuf(b, buf) == b \ {buf}
\* What the library reads through a pointer into a JNI buffer.
ReadBuf(buf, content, dangling) == IF buf \in borrowed THEN content ELSE dangling

\* ------------------------------------------------------------- initContext

\* Variant: the fallback boundary off by one (n_threads >= 0).
ConfiguredThreads_AcceptsZero(n) == IF n >= 0 THEN n ELSE FallbackThreads

\* n_threads > 0 ? n_threads : 4
ConfiguredThreads(n) == IF n > 0 THEN n ELSE FallbackThreads

\* Variant: the first configuration wins; later calls keep it.
StoreThreads_Once(old, n) ==
    IF old = InitialThreads THEN ConfiguredThreads(n) ELSE old

\* g_n_threads = ...: the value stored, given the value held before.
StoreThreads(old, n) == ConfiguredThreads(n)

\* A call of initContext(model_path, n_threads) enters the binding.
CallInit(t, p, n) ==
    /\ At(t, "idle")
    /\ call' = [call EXCEPT ![t] =
                   [op |-> "initContext", model_path |-> p, n_threads |-> n]]
    /\ loc' = [loc EXCEPT ![t] = [op |-> "initContext"]]
    /\ ev' = [ev EXCEPT ![t] = <<>>]
    /\ seen' = [seen EXCEPT ![t] = {g_n_threads}]
    /\ hasInit' = TRUE
    /\ lastHint' = n
    /\ Goto(t, "ic21")
    /\ UNCHANGED <<g_n_threads, ctxs, crashed, borrowed>>

\* line 21: the write of the process-wide thread count.  Every call in
\* progress on another thread has now been exposed to the new value.
IC21(t) ==
    /\ At(t, "ic21")
    /\ g_n_threads' = StoreThreads(g_n_threads, call[t].n_threads)
    /\ seen' = [u \in Threads |->
                   IF pc[u] = "idle" THEN seen[u]
                   ELSE seen[u] \cup {g_n_threads'}]
    /\ Goto(t, "ic23")
    /\ UNCHANGED <<ctxs, crashed, borrowed, call, loc, ev, hasInit, lastHint>>

\* line 23: const char* path = env->GetStringUTFChars(model_path, nullptr);
IC23(t) ==
    /\ At(t, "ic23")
    /\ borrowed' = AcquireBuf(borrowed, <<t, "path">>)
    /\ loc' = [loc EXCEPT ![t] =
                  [op |-> "initContext", path |-> call[t].model_path]]
    /\ Log(t, "get:path")
    /\ Goto(t, "ic25")
    /\ UNCHANGED <<g_n_threads, ctxs, crashed, call, hasInit, lastHint, seen>>

\* lines 25-28: default context parameters with use_gpu = false, then the
\* library's model load.  r is what the load returns: null, or the address
\* of a fresh context when the path names a loadable model.
IC25(t, r) ==
    /\ At(t, "ic25")
    /\ LET path == ReadBuf(<<t, "path">>, loc[t].path, "dangling")
       IN /\ \/ r = NullPtr
             \/ r \in HeapAddrs /\ ~Live(r) /\ path \in ValidModels
          /\ ctxs' = IF r = NullPtr THEN ctxs
                     ELSE [ctxs EXCEPT ![r] = NoCtx("live")]
          /\ loc' = [loc EXCEPT ![t] =
                        [op |-> "initContext", path |-> loc[t].path,
                         load |-> [path |-> path, use_gpu |-> FALSE,
                                   result |-> r],
                         ctx |-> r]]
    /\ Log(t, "lib:init")
    /\ Goto(t, "ic30")
    /\ UNCHANGED <<g_n_threads, crashed, borrowed, call, hasInit, lastHint, seen>>

\* line 30: env->ReleaseStringUTFChars(model_path, path);
IC30(t) ==
    /\ At(t, "ic30")
    /\ borrowed' = ReleaseBuf(borrowed, <<t, "path">>)
    /\ Log(t, "release:path")
    /\ Goto(t, "ic32")
    /\ UNCHANGED <<g_n_threads, ctxs, crashed, call, loc, hasInit, lastHint, seen>>

\* Variant: a success flag is returned in place of the address.
ReturnHandle_Flag(ctx) == IF ctx # NullPtr THEN 1 ELSE 0

\* return reinterpret_cast<jlong>(ctx);
ReturnHandle(ctx) == PtrToJlong(ctx)

\* line 32
IC32(t) ==
    /\ At(t, "ic32")
    /\ loc' = [loc EXCEPT ![t] =
                  [op |-> "initContext", load |-> loc[t].load,
                   ctx |-> loc[t].ctx, ret |-> ReturnHandle(loc[t].ctx)]]
    /\ Goto(t, "ret")
    /\ UNCHANGED <<g_n_threads, ctxs, crashed, borrowed, call, ev,
                   hasInit, lastHint, seen>>

\* The caller takes the result; the frame is gone.
Return(t) ==
    /\ At(t, "ret")
    /\ call' = [call EXCEPT ![t] = NoCall]
    /\ loc' = [loc EXCEPT ![t] = NoLoc]
    /\ ev' = [ev EXCEPT ![t] = <<>>]
    /\ seen' = [seen EXCEPT ![t] = {}]
    /\ Goto(t, "idle")
    /\ UNCHANGED <<g_n_threads, ctxs, crashed, borrowed, hasInit, lastHint>>

\* ---------------------------------------------------------- transcribeAudio

\* r extended (or overwritten) with the fields of s.
Ext(r, s) ==
    [k \in DOMAIN r \cup DOMAIN s |-> IF k \in DOMAIN s THEN s[k] ELSE r[k]]

\* whisper_full_default_params(WHISPER_SAMPLING_GREEDY): the library's
\* defaults, the same on every call (no translation, English, and a thread
\* count of its own choosing).
whisper_full_default_params(strategy) ==
    [strategy |-> strategy, n_threads |-> 4,
     translate |-> FALSE, language |-> "en"]

\* Variant: the thread count is never injected; the default stays.
ConfigureParams_DefaultThreads(defaults, threads, translate) ==
    [defaults EXCEPT !.translate = translate]

\* Variant: the translate flag is never injected; the default stays.
ConfigureParams_DefaultTranslate(defaults, threads, translate) ==
    [defaults EXCEPT !.n_threads = threads]

\* lines 53-54: wparams.n_threads = g_n_threads; wparams.translate = translate;
ConfigureParams(defaults, threads, translate) ==
    [defaults EXCEPT !.n_threads = threads, !.translate = translate]

\* lines 65-68: for (i = 0; i < n_segments; ++i) { += text(i); += " "; }
RECURSIVE Collect(_, _, _, _)
Collect(segs, i, n, acc) ==
    IF i < n
    THEN Collect(segs, i + 1, n, (acc \o segs[i + 1]) \o <<Space>>)
    ELSE acc

\* Variant: only negative statuses count as failure.
ReadsSegments_NonNegative(result) == result >= 0

\* line 63: if (result == 0)
ReadsSegments(result) == result = 0

\* lines 62-69: the segments are read only when the decode returned 0.
Transcription(result, segs) ==
    IF ReadsSegments(result) THEN Collect(segs, 0, Len(segs), <<>>) ELSE <<>>

\* Variant: mode 0, which copies the buffer back into the array.
AudioReleaseMode_CopyBack == "0"

\* ReleaseFloatArrayElements(audio_data, audio, mode): the mode of line 71.
AudioReleaseMode == "JNI_ABORT"
\* The Java array after the release: mode 0 copies the buffer back,
\* JNI_ABORT frees it without copying.
ReleasedArray(array, buf, mode) == IF mode = "JNI_ABORT" THEN array ELSE buf

\* NewStringUTF on valid Modified UTF-8 decodes byte by byte.  On any other
\* input the runtime either aborts the process (CheckJNI) or substitutes a
\* replacement character.
ValidMUTF8(bytes) == \A i \in 1..Len(bytes) : bytes[i] # BadByte
DecodeByte(b) == IF b = BadByte THEN ReplacementChar ELSE b
NewStringUTF(bytes) == [i \in 1..Len(bytes) |-> DecodeByte(bytes[i])]

\* A call of transcribeAudio(context_ptr, audio_data, sample_rate, language,
\* translate) enters the binding.  pre is the binding-visible state at entry.
CallTranscribe(t, h, a, sr, l, tr) ==
    /\ At(t, "idle")
    /\ call' = [call EXCEPT ![t] =
                   [op |-> "transcribeAudio", context_ptr |-> h,
                    audio_data |-> a, sample_rate |-> sr, language |-> l,
                    translate |-> tr]]
    /\ loc' = [loc EXCEPT ![t] =
                  [op |-> "transcribeAudio", array |-> a,
                   pre |-> [g |-> g_n_threads, array |-> a, live |-> LiveSet]]]
    /\ ev' = [ev EXCEPT ![t] = <<>>]
    /\ seen' = [seen EXCEPT ![t] = {g_n_threads}]
    /\ Goto(t, "ta45")
    /\ UNCHANGED <<g_n_threads, ctxs, crashed, borrowed, hasInit, lastHint>>

\* lines 45-48: the context pointer, the array length, the borrowed elements.
TA45(t) ==
    /\ At(t, "ta45")
    /\ borrowed' = AcquireBuf(borrowed, <<t, "audio">>)
    /\ loc' = [loc EXCEPT ![t] =
                  Ext(@, [ctx |-> JlongToPtr(call[t].context_ptr),
                          audio_length |-> Len(loc[t].array),
                          audio |-> loc[t].array])]
    /\ Log(t, "get:audio")
    /\ Goto(t, "ta50")
    /\ UNCHANGED <<g_n_threads, ctxs, crashed, call, hasInit, lastHint, seen>>

\* lines 50-54: the decode configuration, built anew from the defaults; the
\* read of the process-wide thread count.
TA50(t) ==
    /\ At(t, "ta50")
    /\ loc' = [loc EXCEPT ![t] =
                  Ext(@, [wparams |->
                             ConfigureParams(
                                 whisper_full_default_params("greedy"),
                                 g_n_threads, call[t].translate)])]
    /\ Goto(t, "ta56")
    /\ UNCHANGED <<g_n_threads, ctxs, crashed, borrowed, call, ev,
                   hasInit, lastHint, seen>>

\* lines 56-57: wparams.language points into the borrowed string.
TA56(t) ==
    /\ At(t, "ta56")
    /\ borrowed' = AcquireBuf(borrowed, <<t, "lang">>)
    /\ loc' = [loc EXCEPT ![t] = Ext(@, [lang |-> call[t].language])]
    /\ Log(t, "get:lang")
    /\ Goto(t, "ta60")
    /\ UNCHANGED <<g_n_threads, ctxs, crashed, call, hasInit, lastHint, seen>>

\* line 60: whisper_full(ctx, wparams, audio, audio_length).  The library
\* reads the samples and the language through the pointers it was given.
\* On a live context it returns status and leaves the segment list out in
\* the context: any list on success; on failure the list of the previous
\* decode or none.  On anything else the behaviour is undefined: the
\* process dies, or the call returns some status.
TA60(t, status, out, outcome) ==
    /\ At(t, "ta60")
    /\ LET ctx == loc[t].ctx
           full == [ctx |-> ctx,
                    ctx_state |-> CtxState(ctx),
                    was_translated |-> Live(ctx) /\ ctxs[ctx].translated,
                    n_threads |-> loc[t].wparams.n_threads,
                    translate |-> loc[t].wparams.translate,
                    strategy |-> loc[t].wparams.strategy,
                    language |-> ReadBuf(<<t, "lang">>, loc[t].lang, "dangling"),
                    samples |-> ReadBuf(<<t, "audio">>, loc[t].audio, <<>>),
                    n_samples |-> loc[t].audio_length]
       IN /\ IF Live(ctx)
             THEN /\ outcome = "return"
                  /\ status # 0 => out \in {ctxs[ctx].segs, <<>>}
                  /\ ctxs' = [ctxs EXCEPT ![ctx].segs = out,
                                           ![ctx].translated =
                                               loc[t].wparams.translate]
                  /\ crashed' = FALSE
             ELSE /\ out = <<>>
                  /\ ctxs' = ctxs
                  /\ crashed' = (outcome = "crash")
          /\ loc' = [loc EXCEPT ![t] = Ext(@, [full |-> full, result |-> status])]
          /\ Goto(t, IF crashed' THEN "crash" ELSE "ta62")
    /\ Log(t, "lib:full")
    /\ UNCHANGED <<g_n_threads, borrowed, call, hasInit, lastHint, seen>>

\* lines 62-69: on status 0 the segment count and each segment's text are
\* read from the context.  Reading a context that is not live yields
\* whatever the memory holds (garbage).
TA62(t, garbage) ==
    /\ At(t, "ta62")
    /\ (Live(loc[t].ctx) \/ ~ReadsSegments(loc[t].result)) => garbage = <<>>
    /\ LET segs == IF Live(loc[t].ctx) THEN ctxs[loc[t].ctx].segs ELSE garbage
       IN /\ loc' = [loc EXCEPT ![t] =
                        Ext(@, [transcription |->
                                    Transcription(loc[t].result, segs),
                                segs_read |-> IF ReadsSegments(loc[t].result)
                                              THEN segs ELSE <<>>])]
          /\ ev' = IF ReadsSegments(loc[t].result)
                   THEN [ev EXCEPT ![t] = Append(@, "lib:segments")]
                   ELSE ev
    /\ Goto(t, "ta71")
    /\ UNCHANGED <<g_n_threads, ctxs, crashed, borrowed, call,
                   hasInit, lastHint, seen>>

\* line 71: env->ReleaseFloatArrayElements(audio_data, audio, JNI_ABORT);
TA71(t) ==
    /\ At(t, "ta71")
    /\ borrowed' = ReleaseBuf(borrowed, <<t, "audio">>)
    /\ loc' = [loc EXCEPT ![t] =
                  Ext(@, [array |-> ReleasedArray(loc[t].array, loc[t].audio,
                                                  AudioReleaseMode),
                          audio_release |-> AudioReleaseMode])]
    /\ Log(t, "release:audio")
    /\ Goto(t, "ta72")
    /\ UNCHANGED <<g_n_threads, ctxs, crashed, call, hasInit, lastHint, seen>>

\* line 72: env->ReleaseStringUTFChars(language, lang);
TA72(t) ==
    /\ At(t, "ta72")
    /\ borrowed' = ReleaseBuf(borrowed, <<t, "lang">>)
    /\ Log(t, "release:lang")
    /\ Goto(t, "ta74")
    /\ UNCHANGED <<g_n_threads, ctxs, crashed, call, loc, hasInit, lastHint, seen>>

\* line 74: return env->NewStringUTF(transcription.c_str());
TA74(t, how) ==
    /\ At(t, "ta74")
    /\ ValidMUTF8(loc[t].transcription) => how = "decode"
    /\ crashed' = (how = "abort")
    /\ loc' = [loc EXCEPT ![t] =
                  Ext(@, [ret |-> NewStringUTF(loc[t].transcription)])]
    /\ Goto(t, IF how = "abort" THEN "crash" ELSE "ret")
    /\ UNCHANGED <<g_n_threads, ctxs, borrowed, call, ev, hasInit, lastHint, seen>>

\* ----------------------------------------------------------- releaseContext

\* A call of releaseContext(context_ptr) enters the binding.
CallRelease(t, h) ==
    /\ At(t, "idle")
    /\ call' = [call EXCEPT ![t] = [op |-> "releaseContext", context_ptr |-> h]]
    /\ loc' = [loc EXCEPT ![t] = [op |-> "releaseContext", freed |-> <<>>]]
    /\ ev' = [ev EXCEPT ![t] = <<>>]
    /\ seen' = [seen EXCEPT ![t] = {g_n_threads}]
    /\ Goto(t, "rc83")
    /\ UNCHANGED <<g_n_threads, ctxs, crashed, borrowed, hasInit, lastHint>>

\* Variant: a null handle is rejected and never reaches the library.
RC83_NullChecked(t, outcome) ==
    /\ At(t, "rc83")
    /\ LET ctx == JlongToPtr(call[t].context_ptr)
       IN /\ IF Live(ctx)
             THEN /\ outcome = "return"
                  /\ ctxs' = [ctxs EXCEPT ![ctx] = NoCtx("freed")]
                  /\ crashed' = FALSE
             ELSE /\ ctxs' = ctxs
                  /\ crashed' = (ctx # NullPtr /\ outcome = "crash")
          /\ loc' = [loc EXCEPT ![t] =
                        Ext(@, [freed |-> IF ctx = NullPtr THEN loc[t].freed
                                          ELSE Append(loc[t].freed, ctx),
                                ctx_state |-> CtxState(ctx)])]
          /\ ev' = IF ctx = NullPtr THEN ev
                   ELSE [ev EXCEPT ![t] = Append(@, "lib:free")]
          /\ Goto(t, IF crashed' THEN "crash" ELSE "ret")
    /\ UNCHANGED <<g_n_threads, borrowed, call, hasInit, lastHint, seen>>

\* lines 83-84: whisper_free(ctx).  A live context is freed; freeing
\* anything else is undefined: the process dies or the heap looks unchanged.
RC83(t, outcome) ==
    /\ At(t, "rc83")
    /\ LET ctx == JlongToPtr(call[t].context_ptr)
       IN /\ IF Live(ctx)
             THEN /\ outcome = "return"
                  /\ ctxs' = [ctxs EXCEPT ![ctx] = NoCtx("freed")]
                  /\ crashed' = FALSE
             ELSE /\ ctxs' = ctxs
                  /\ crashed' = (outcome = "crash")
          /\ loc' = [loc EXCEPT ![t] =
                        Ext(@, [freed |-> Append(loc[t].freed, ctx),
                                ctx_state |-> CtxState(ctx)])]
    /\ Log(t, "lib:free")
    /\ Goto(t, IF outcome = "crash" THEN "crash" ELSE "ret")
    /\ UNCHANGED <<g_n_threads, borrowed, call, hasInit, lastHint, seen>>

\* -------------------------------------------------------------------- runs

Outcomes == {"return", "crash"}

\* A call enters the binding on thread t, its arguments drawn from the
\* given sets.
Begin(t, paths, hints, handles, langs, flags) ==
    \/ \E p \in paths, n \in hints : CallInit(t, p, n)
    \/ \E h \in handles, a \in AudioArrays, sr \in SampleRates,
          l \in langs, tr \in flags : CallTranscribe(t, h, a, sr, l, tr)
    \/ \E h \in handles : CallRelease(t, h)

\* One statement of a call in progress, the library's answers drawn from
\* the given sets.
Steps(addrs, statuses, outputs) ==
    \/ \E t \in Threads : IC21(t)
    \/ \E t \in Threads : IC23(t)
    \/ \E t \in Threads, r \in {NullPtr} \cup addrs : IC25(t, r)
    \/ \E t \in Threads : IC30(t)
    \/ \E t \in Threads : IC32(t)
    \/ \E t \in Threads : TA45(t)
    \/ \E t \in Threads : TA50(t)
    \/ \E t \in Threads : TA56(t)
    \/ \E t \in Threads, status \in statuses, out \in outputs,
          outcome \in Outcomes : TA60(t, status, out, outcome)
    \/ \E t \in Threads, garbage \in outputs : TA62(t, garbage)
    \/ \E t \in Threads : TA71(t)
    \/ \E t \in Threads : TA72(t)
    \/ \E t \in Threads, how \in {"decode", "lenient", "abort"} : TA74(t, how)
    \/ \E t \in Threads, outcome \in Outcomes : RC83(t, outcome)
    \/ \E t \in Threads : Return(t)

\* Sequential histories: a call begins only when no call is in progress.
Next ==
    \/ AllIdle /\ Begin(MainThread, ModelPaths, ThreadHints, JHandles,
                         Languages, BOOLEAN)
    \/ Steps(HeapAddrs, Statuses, DecodeOutputs)

Spec == Init /\ [][Next]_vars

\* Concurrent callers: calls on different threads interleave statement by
\* statement.  The arguments and the library's answers come from smaller
\* sets: one model, one context address, one language, one non-empty
\* segment list.
ConcHints == {0, 8}
ConcAddrs == {HeapAddr(1)}
ConcHandles == {PtrToJlong(a) : a \in ConcAddrs}
ConcOutputs == {<<>>, <<SegA>>}
ConcStatuses == {0, -1}

NextConc ==
    \/ \E t \in Threads :
           Begin(t, ValidModels, ConcHints, ConcHandles, {"en"}, {FALSE})
    \/ Steps(ConcAddrs, ConcStatuses, ConcOutputs)

SpecConc == Init /\ [][NextConc]_vars

\* ------------------------------------------------------------ properties

InInit(t) == call[t].op = "initContext"
InTranscribe(t) == call[t].op = "transcribeAudio"
InRelease(t) == call[t].op = "releaseContext"
Returned(t) == pc[t] = "ret"
\* Positions of transcribeAudio after the library decode was called.
Decoded(t) ==
    InTranscribe(t) /\ pc[t] \in {"ta62", "ta71", "ta72", "ta74", "ret", "crash"}

\* The documented thread count for a hint.
DocumentedThreads(n) == IF n > 0 THEN n ELSE 4

Count(s, x) == Cardinality({i \in DOMAIN s : s[i] = x})
Positions(s, x) == {i \in DOMAIN s : s[i] = x}

\* The documented result: every text followed by one space, in order.
RECURSIVE Joined(_)
Joined(texts) ==
    IF texts = <<>> THEN <<>>
    ELSE (Head(texts) \o <<" ">>) \o Joined(Tail(texts))

\* C1: when initContext(path, n) has returned, the configured thread count
\* is n if n > 0 and 4 otherwise; a transcribeAudio that follows a
\* non-positive hint decodes with 4 threads.
C1_ThreadHintFallback ==
    \A t \in Threads :
        /\ (InInit(t) /\ Returned(t)) =>
               g_n_threads = DocumentedThreads(call[t].n_threads)
        /\ (Decoded(t) /\ hasInit /\ lastHint <= 0) =>
               loc[t].full.n_threads = 4

\* C1 witness: an initContext with a non-positive hint has returned and
\* replaced a configured count other than 4.
C1_Witness ==
    \E t \in Threads :
        /\ InInit(t) /\ Returned(t) /\ call[t].n_threads <= 0
        /\ seen[t] = {8, 4}

\* C2: when the decode of a live context returns status 0, transcribeAudio
\* returns the segment texts in index order, each followed by one space.
C2_ReturnsJoinedSegments ==
    \A t \in Threads :
        (InTranscribe(t) /\ Returned(t) /\ loc[t].result = 0
            /\ loc[t].full.ctx_state = "live") =>
            loc[t].ret = Joined(loc[t].segs_read)

\* The same, for segment texts that are valid Modified UTF-8.
ReturnsJoinedValidSegments ==
    \A t \in Threads :
        (InTranscribe(t) /\ Returned(t) /\ loc[t].result = 0
            /\ loc[t].full.ctx_state = "live"
            /\ ValidMUTF8(Joined(loc[t].segs_read))) =>
            loc[t].ret = Joined(loc[t].segs_read)

\* C3: on a non-zero status no segment is read and the empty string is
\* returned, also when the context still holds the texts of an earlier
\* decode.
C3_EmptyOnFailure ==
    \A t \in Threads :
        (Decoded(t) /\ loc[t].result # 0) =>
            /\ Count(ev[t], "lib:segments") = 0
            /\ pc[t] \in {"ta71", "ta72", "ta74", "ret"} =>
                   loc[t].transcription = <<>>
            /\ Returned(t) => loc[t].ret = <<>>

\* C3 witness: a failed decode has returned while the context holds the
\* texts of an earlier successful decode.
C3_Witness ==
    \E t \in Threads :
        /\ InTranscribe(t) /\ Returned(t) /\ loc[t].result # 0
        /\ Live(loc[t].ctx) /\ ctxs[loc[t].ctx].segs # <<>>

\* C4: initContext returns the handle of the library's load: null (0)
\* exactly when the load returned null, whatever the cause, and otherwise
\* the value that casts back to the loaded context.
C4_ReturnsLoadResult ==
    \A t \in Threads :
        (InInit(t) /\ Returned(t)) =>
            /\ (loc[t].ret = 0) <=> (loc[t].load.result = NullPtr)
            /\ JlongToPtr(loc[t].ret) = loc[t].load.result
            /\ loc[t].ret \in JHandles

\* C4 witness: a successful load whose address has the top bit set.
C4_Witness ==
    \E t \in Threads :
        /\ InInit(t) /\ Returned(t)
        /\ loc[t].ret < 0 /\ Live(loc[t].load.result)

\* C5: in a sequential history every decode runs with the thread count of
\* the most recent initContext call (4 before the first), whatever that
\* call's load returned and whatever handle is transcribed.
C5_MostRecentInitWins ==
    \A t \in Threads :
        Decoded(t) =>
            loc[t].full.n_threads =
                IF hasInit THEN DocumentedThreads(lastHint) ELSE 4

\* C5 witness: no load has ever succeeded, yet the decode runs with the
\* count of the last initContext call.
C5_Witness ==
    \E t \in Threads :
        /\ Decoded(t) /\ Returned(t)
        /\ \A a \in HeapAddrs : ctxs[a].st = "unalloc"
        /\ hasInit /\ lastHint = 8 /\ loc[t].full.n_threads = 8

\* C6: with concurrent callers the read of the thread count yields the
\* value at the call's entry or one written by an initContext since, and
\* every write stores its own call's value whatever was there (the last
\* write stands).
C6_UnsynchronisedThreadCount ==
    [][\A t \in Threads :
          /\ (pc[t] = "ta50" /\ pc'[t] = "ta56") =>
                 loc'[t].wparams.n_threads \in seen[t]
          /\ (pc[t] = "ic21" /\ pc'[t] = "ic23") =>
                 g_n_threads' = DocumentedThreads(call[t].n_threads)]_vars

\* C6 witness: a transcription has read a thread count written by another
\* thread's initContext after the transcription began, while that
\* initContext is still in progress.
C6_Witness ==
    \E t \in Threads, u \in Threads :
        /\ t # u /\ InTranscribe(t) /\ pc[t] = "ta56"
        /\ loc[t].wparams.n_threads # loc[t].pre.g
        /\ InInit(u) /\ pc[u] \in {"ic23", "ic25", "ic30", "ic32"}

\* In a sequential history the read is the value at the call's entry.
SequentialReadIsEntryValue ==
    \A t \in Threads :
        (InTranscribe(t) /\ pc[t] = "ta56") =>
            loc[t].wparams.n_threads = loc[t].pre.g

\* C7: the language and translate flag the library decode receives are the
\* arguments of the call that makes it.
C7_ParamsOfThisCall ==
    \A t \in Threads :
        Decoded(t) =>
            /\ loc[t].full.language = call[t].language
            /\ loc[t].full.translate = call[t].translate

\* C7 witness: a decode without translation on a context whose previous
\* decode translated, in a language other than the default.
C7_Witness ==
    \E t \in Threads :
        /\ Decoded(t) /\ Returned(t)
        /\ loc[t].full.was_translated /\ ~loc[t].full.translate
        /\ loc[t].full.language = "auto"

\* C8: when transcribeAudio returns, the thread count, the audio array and
\* the set of live contexts are as at entry, and the audio buffer was
\* released without copy-back.
C8_TranscribeFrame ==
    \A t \in Threads :
        (InTranscribe(t) /\ Returned(t)) =>
            /\ g_n_threads = loc[t].pre.g
            /\ loc[t].array = loc[t].pre.array
            /\ loc[t].audio_release = "JNI_ABORT"
            /\ LiveSet = loc[t].pre.live

\* C8 witness: a successful transcription has returned and left segments
\* in the context.
C8_Witness ==
    \E t \in Threads :
        /\ InTranscribe(t) /\ Returned(t) /\ loc[t].result = 0
        /\ Live(loc[t].ctx) /\ ctxs[loc[t].ctx].segs # <<>>

\* C9: releaseContext hands its handle to the library free exactly once
\* and transcribeAudio hands its handle to the library decode, whatever
\* state the handle is in.
C9_HandlesForwardedUnchecked ==
    \A t \in Threads :
        /\ (InRelease(t) /\ pc[t] \in {"ret", "crash"}) =>
               loc[t].freed = <<JlongToPtr(call[t].context_ptr)>>
        /\ Decoded(t) =>
               /\ loc[t].full.ctx = JlongToPtr(call[t].context_ptr)
               /\ Count(ev[t], "lib:full") = 1

\* C9 witness: a second release of a released handle has reached the
\* library and returned.
C9_Witness ==
    \E t \in Threads :
        /\ InRelease(t) /\ Returned(t)
        /\ loc[t].ctx_state = "freed"

\* A transcription of a released handle reaches the library as well.
TranscribeAfterReleaseUnreached ==
    \A t \in Threads : Decoded(t) => loc[t].full.ctx_state # "freed"

\* The events of a finished call: every buffer got is released once, after
\* the last library call.
ReleasedOnceAfterUse(events, kind) ==
    /\ Count(events, "get:" \o kind) = Count(events, "release:" \o kind)
    /\ Count(events, "release:" \o kind) <= 1
    /\ \A i \in DOMAIN events, j \in Positions(events, "release:" \o kind) :
           events[i] \in {"lib:init", "lib:full", "lib:segments"} => i < j

\* C10: a call that has returned holds no borrowed buffer; each buffer it
\* got was released once, after the library's last use; the library never
\* read a released buffer.
C10_BuffersReleased ==
    \A t \in Threads :
        /\ pc[t] \in {"idle", "ret"} =>
               \A k \in {"path", "audio", "lang"} : <<t, k>> \notin borrowed
        /\ Returned(t) =>
               \A k \in {"path", "audio", "lang"} :
                   ReleasedOnceAfterUse(ev[t], k)
        /\ (InInit(t) /\ Returned(t)) =>
               /\ Count(ev[t], "get:path") = 1
               /\ loc[t].load.path = call[t].model_path
        /\ (InTranscribe(t) /\ Returned(t)) =>
               /\ Count(ev[t], "get:audio") = 1
               /\ Count(ev[t], "get:lang") = 1
               /\ loc[t].full.samples = call[t].audio_data

\* C10 witness: a transcription whose decode failed has returned with both
\* buffers released.
C10_Witness ==
    \E t \in Threads :
        /\ InTranscribe(t) /\ Returned(t) /\ loc[t].result # 0
        /\ Count(ev[t], "release:audio") = 1
        /\ Count(ev[t], "release:lang") = 1
        /\ borrowed = {}

====
